---- MODULE Spec2Model ----
(***************************************************************************)
(* Model of bedrock_dynamic_cross_region_routing.py: the module-level      *)
(* workflow (one invocation cycle per run of the script), the retry engine *)
(* bedrock_invoke_model_message_with_retry, the availability filter, the   *)
(* quarantine updater and the locked writer of bedrock_endpoints.conf.     *)
(* Several runs of the script share one configuration file and one clock.  *)
(***************************************************************************)
EXTENDS Integers, Sequences, FiniteSets, TLC

(***************************************************************************)
(* Program constants (lines 21-24) and the bounds of the model.            *)
(***************************************************************************)
MAX_RETRY_TIME == 5
NEXT_RETRY_TIME_WINDOW == 3600
MULTI_REGION_RETRY == TRUE
MAX_RETRY_TIMES_FOR_EACH_REGION == 2

\* Largest total budget / per-region budget tried by the engine specification.
MaxBudget == 5
MaxPerRegion == 3
\* Runs of the script that may be started per behaviour.
MaxCycles == 3
\* The wall clock (epoch seconds) when the model starts, and the instants at
\* which the model samples it: the start, the last second of a cooldown that
\* began at the start, and the first second after it.
StartTime == 1700000000
Instants == {StartTime, StartTime + NEXT_RETRY_TIME_WINDOW - 1,
             StartTime + NEXT_RETRY_TIME_WINDOW}

\* Process slots: each runs the script from line 1 to the end, one cycle a run.
Procs == {"p1", "p2"}
NoProc == "none"
None == "None"

\* Region identifiers, in the order the configuration file lists them.
RegionOrder == <<"A", "B", "C">>
Regions == {RegionOrder[i] : i \in 1..Len(RegionOrder)}

\* Outcomes of one bedrock.invoke_model call: a truthy response, a falsy
\* response, or a raised exception (lines 91-109).
Outcomes == {"ok", "falsy", "raise"}

VARIABLES
    clock,              \* time.time(), rounded
    file,               \* content of bedrock_endpoints.conf, a token sequence
    lock,               \* holder of the flock on the file, or NoProc
    conf,               \* the global configuration of lines 21-32
    cyclesLeft,         \* runs of the script that may still be started
    pc,                 \* position of each process in the script
    current_time,       \* line 167
    raw_region_configs, \* line 176
    validate_regions,   \* line 180
    region_idx,         \* index of region_name in validate_regions (line 80)
    one_region_retry_time, \* line 85
    retry_time,         \* line 74
    failed_regions,     \* line 27
    response,           \* line 213
    json_data,          \* line 148
    wbuf,               \* data written to f but not yet flushed (line 153)
    conf_save_result,   \* line 227
    last_out,           \* history: how the attempt before the next failed
    calls,              \* history: the invoke_model calls of the cycle
    loaded,             \* history: the registry as parsed at line 176
    seen,               \* history: quarantines persisted before this load
    persisted,          \* history: quarantines written to the file so far
    wopened,            \* history: cycle opened the file for writing
    written             \* history: the payload the cycle flushed to the file

vars == <<clock, file, lock, conf, cyclesLeft, pc, current_time,
          raw_region_configs, validate_regions, region_idx,
          one_region_retry_time, retry_time, failed_regions, response,
          json_data, wbuf, conf_save_result, last_out, calls, loaded, seen,
          persisted, wopened, written>>

(***************************************************************************)
(* json.dumps / json.loads of the registry.  Every token other than a      *)
(* digit has the same width in all payloads (same regions, same order),    *)
(* so the payload is modelled as a sequence of tokens in which an integer  *)
(* is written as its decimal digits, one token a digit.                    *)
(***************************************************************************)
DigitChars == <<"0", "1", "2", "3", "4", "5", "6", "7", "8", "9">>
DigitSet == {DigitChars[i] : i \in 1..10}
DigitVal(d) == (CHOOSE i \in 1..10 : DigitChars[i] = d) - 1

RECURSIVE Digits(_)
Digits(n) == IF n < 10 THEN <<DigitChars[n + 1]>>
             ELSE Digits(n \div 10) \o <<DigitChars[(n % 10) + 1]>>

\* A registry entry is a dict: a well-formed one has the keys region and
\* next_available_time, a malformed one lacks one of them.
HasKey(e, k) == k \in DOMAIN e
WellFormed(e) == HasKey(e, "region") /\ HasKey(e, "next_available_time")

DumpEntry(e) ==
    <<"{">>
    \o (IF HasKey(e, "region") THEN <<"region:", e.region>> ELSE <<>>)
    \o (IF WellFormed(e) THEN <<",">> ELSE <<>>)
    \o (IF HasKey(e, "next_available_time")
        THEN <<"next_available_time:">> \o Digits(e.next_available_time)
        ELSE <<>>)
    \o <<"}">>

RECURSIVE DumpEntries(_)
DumpEntries(reg) ==
    IF Len(reg) = 0 THEN <<>>
    ELSE IF Len(reg) = 1 THEN DumpEntry(reg[1])
    ELSE DumpEntry(reg[1]) \o <<",">> \o DumpEntries(Tail(reg))

\* json.dumps(data), line 148
Dumps(reg) == <<"[">> \o DumpEntries(reg) \o <<"]">>

ParseFail == [ok |-> FALSE, value |-> <<>>]

\* The end of the run of digits of s that starts at i (i - 1 when none).
RECURSIVE DigitsEnd(_, _)
DigitsEnd(s, i) == IF i <= Len(s) /\ s[i] \in DigitSet THEN DigitsEnd(s, i + 1)
                   ELSE i - 1

RECURSIVE NumberValue(_, _, _)
NumberValue(s, i, j) == IF j < i THEN 0
                        ELSE 10 * NumberValue(s, i, j - 1) + DigitVal(s[j])

\* A JSON integer at s[i]: "0" or a digit run without a leading zero.
\* The scanner stops after a leading "0"; a digit after it is extra data.
NumberEnd(s, i) == IF i <= Len(s) /\ s[i] = "0" THEN i ELSE DigitsEnd(s, i)

\* The token of s at i, or the empty string past the end.
At(s, i) == IF i >= 1 /\ i <= Len(s) THEN s[i] ELSE ""

NoEntry == [ok |-> FALSE, e |-> <<>>, next |-> 0]

\* The object of s that starts at i: its dict and the position after it.
LoadEntry(s, i) ==
    IF At(s, i) # "{" THEN NoEntry
    ELSE IF At(s, i + 1) = "region:" /\ At(s, i + 2) \in Regions
    THEN IF At(s, i + 3) = "}"
         THEN [ok |-> TRUE, e |-> [region |-> s[i + 2]], next |-> i + 4]
         ELSE IF /\ At(s, i + 3) = ","
                 /\ At(s, i + 4) = "next_available_time:"
                 /\ NumberEnd(s, i + 5) >= i + 5
                 /\ At(s, NumberEnd(s, i + 5) + 1) = "}"
              THEN LET j == NumberEnd(s, i + 5)
                   IN [ok |-> TRUE,
                       e |-> [region |-> s[i + 2],
                              next_available_time |->
                                  NumberValue(s, i + 5, j)],
                       next |-> j + 2]
              ELSE NoEntry
    ELSE IF /\ At(s, i + 1) = "next_available_time:"
            /\ NumberEnd(s, i + 2) >= i + 2
            /\ At(s, NumberEnd(s, i + 2) + 1) = "}"
         THEN LET j == NumberEnd(s, i + 2)
              IN [ok |-> TRUE,
                  e |-> [next_available_time |-> NumberValue(s, i + 2, j)],
                  next |-> j + 2]
         ELSE NoEntry

\* Parses entries from position i on; acc holds the entries parsed so far.
RECURSIVE LoadEntries(_, _, _)
LoadEntries(s, i, acc) ==
    LET r == LoadEntry(s, i)
    IN IF ~r.ok THEN ParseFail
       ELSE IF At(s, r.next) = "]"
            THEN IF r.next = Len(s)
                 THEN [ok |-> TRUE, value |-> Append(acc, r.e)]
                 ELSE ParseFail
            ELSE IF At(s, r.next) = ","
                 THEN LoadEntries(s, r.next + 1, Append(acc, r.e))
                 ELSE ParseFail

\* json.loads(endpoint_config), line 176: raises (ok = FALSE) on anything
\* that is not one complete JSON document.
Loads(s) ==
    IF Len(s) < 2 \/ s[1] # "[" THEN ParseFail
    ELSE IF s[2] = "]" THEN (IF Len(s) = 2 THEN [ok |-> TRUE, value |-> <<>>]
                             ELSE ParseFail)
    ELSE LoadEntries(s, 2, <<>>)

\* os write(2) of data at offset 0 of a file holding old (the handle was
\* opened at line 151 and nothing was written through it before).
WriteAtStart(old, data) ==
    [i \in 1..(IF Len(old) > Len(data) THEN Len(old) ELSE Len(data)) |->
        IF i <= Len(data) THEN data[i] ELSE old[i]]

(***************************************************************************)
(* The pure parts of the script.                                           *)
(***************************************************************************)
\* Variant: the else branch of line 32 is missing.
EffectivePerRegion_NoOverride(c) == c.max_retry_times_for_each_region

\* Lines 29-32: without multi-region retry one region takes the whole budget.
EffectivePerRegion(c) ==
    IF c.multi_region_retry THEN c.max_retry_times_for_each_region
    ELSE c.max_retry_time

\* Variant: the eligible regions in reverse order.
RECURSIVE get_validate_regions_from_conf_Reversed(_, _)
get_validate_regions_from_conf_Reversed(region_configs, now) ==
    IF Len(region_configs) = 0 THEN <<>>
    ELSE LET regional_conf == region_configs[1]
             rest == get_validate_regions_from_conf_Reversed(
                         Tail(region_configs), now)
         IN IF regional_conf.next_available_time <= now
            THEN Append(rest, regional_conf.region)
            ELSE rest

\* Variant: a region is eligible only after its time, not at it.
RECURSIVE get_validate_regions_from_conf_Strict(_, _)
get_validate_regions_from_conf_Strict(region_configs, now) ==
    IF Len(region_configs) = 0 THEN <<>>
    ELSE LET regional_conf == region_configs[1]
             rest == get_validate_regions_from_conf_Strict(
                         Tail(region_configs), now)
         IN IF regional_conf.next_available_time < now
            THEN <<regional_conf.region>> \o rest
            ELSE rest

\* Variant: every region is eligible.
get_validate_regions_from_conf_All(region_configs, now) ==
    [i \in 1..Len(region_configs) |-> region_configs[i].region]

\* get_validate_regions_from_conf, lines 41-57 (current_time is the global
\* of line 167).
RECURSIVE get_validate_regions_from_conf(_, _)
get_validate_regions_from_conf(region_configs, now) ==
    IF Len(region_configs) = 0 THEN <<>>
    ELSE LET regional_conf == region_configs[1]
             rest == get_validate_regions_from_conf(Tail(region_configs), now)
         IN IF regional_conf.next_available_time <= now
            THEN <<regional_conf.region>> \o rest
            ELSE rest

\* Lines 54-55 raise KeyError at an entry without next_available_time, and
\* at an entry without region whose time has passed.
FilterRaises(region_configs, now) ==
    \E i \in 1..Len(region_configs) :
        \/ ~HasKey(region_configs[i], "next_available_time")
        \/ /\ region_configs[i].next_available_time <= now
           /\ ~HasKey(region_configs[i], "region")

InSeq(x, s) == \E i \in 1..Len(s) : s[i] = x

\* Line 133 raises KeyError at an entry without region.
DisableRaises(region_configs) ==
    \E i \in 1..Len(region_configs) : ~HasKey(region_configs[i], "region")

\* Variant: the failed regions get the current time, without the window.
disable_region_in_conf_NoWindow(region_configs, disable_regions, now) ==
    [i \in 1..Len(region_configs) |->
        IF InSeq(region_configs[i].region, disable_regions)
        THEN [region_configs[i] EXCEPT !.next_available_time = now]
        ELSE region_configs[i]]

\* Variant: the entries of the other regions are reset.
disable_region_in_conf_ResetOthers(region_configs, disable_regions, now) ==
    [i \in 1..Len(region_configs) |->
        [region_configs[i] EXCEPT !.next_available_time =
            IF InSeq(region_configs[i].region, disable_regions)
            THEN now + NEXT_RETRY_TIME_WINDOW ELSE 0]]

\* disable_region_in_conf, lines 118-136.
disable_region_in_conf(region_configs, disable_regions, now) ==
    LET next_timestamp == now + NEXT_RETRY_TIME_WINDOW
    IN [i \in 1..Len(region_configs) |->
          IF InSeq(region_configs[i].region, disable_regions)
          THEN [region_configs[i] EXCEPT !.next_available_time = next_timestamp]
          ELSE region_configs[i]]

\* The registry when line 133 raises: the entries before the first one
\* without region have been updated in place.
DisableInterrupted(region_configs, disable_regions, now) ==
    LET stop == CHOOSE i \in 1..Len(region_configs) :
                    /\ ~HasKey(region_configs[i], "region")
                    /\ \A j \in 1..(i - 1) : HasKey(region_configs[j], "region")
    IN [i \in 1..Len(region_configs) |->
          IF i < stop /\ InSeq(region_configs[i].region, disable_regions)
          THEN [region_configs[i] EXCEPT
                   !.next_available_time = now + NEXT_RETRY_TIME_WINDOW]
          ELSE region_configs[i]]

\* Variant: every failed attempt appends the region.
MarkFailed_Always(failed, region_name, attempt) == Append(failed, region_name)

\* Lines 96-97: a falsy response records the region at its first attempt
\* only.
MarkFailed(failed, region_name, attempt) ==
    IF attempt = 0 THEN Append(failed, region_name) ELSE failed

\* Variant: an exception on the first attempt does not record the region.
MarkFailedOnException_Never(failed, region_name, attempt) == failed

\* Lines 105-106: the same in the except clause.
MarkFailedOnException(failed, region_name, attempt) ==
    IF attempt = 0 THEN Append(failed, region_name) ELSE failed

\* Variant: the writer runs after every cycle.
NeedsUpdate_Always(failed) == TRUE

\* Line 222: the quarantine-and-persist path is taken iff a region failed.
NeedsUpdate(failed) == Len(failed) > 0

(***************************************************************************)
(* Control flow of the nested loops of lines 80-115.  A position is the    *)
(* next invoke_model call (region index ri, attempt k) or the fall-through *)
(* to "return False" of line 115.                                          *)
(***************************************************************************)
ReturnFalse == [call |-> FALSE, ri |-> 0, k |-> 0]

RECURSIVE OuterHead(_, _, _, _, _)
\* Variant: the inner loop does not test the global budget (line 88).
InnerHead_NoGlobal(rs, g, pr, ri, k, rt) ==
    IF k < pr
    THEN [call |-> TRUE, ri |-> ri, k |-> k]
    ELSE OuterHead(rs, g, pr, ri + 1, rt)

\* Variant: the inner loop runs until the global budget is used up.
InnerHead_NoPerRegion(rs, g, pr, ri, k, rt) ==
    IF rt < g
    THEN [call |-> TRUE, ri |-> ri, k |-> k]
    ELSE OuterHead(rs, g, pr, ri + 1, rt)

\* Lines 85-88 and 110-111: the head of the inner loop at attempt k.
InnerHead(rs, g, pr, ri, k, rt) ==
    IF k < pr /\ rt < g
    THEN [call |-> TRUE, ri |-> ri, k |-> k]
    ELSE OuterHead(rs, g, pr, ri + 1, rt)

\* Lines 80-82 and 112-113: the head of the outer loop at region ri.
OuterHead(rs, g, pr, ri, rt) ==
    IF ri > Len(rs) THEN ReturnFalse
    ELSE IF rs[ri] # None /\ rt < g
         THEN InnerHead(rs, g, pr, ri, 0, rt)
         ELSE ReturnFalse

(***************************************************************************)
(* Initial states.                                                         *)
(***************************************************************************)
\* Registries over the first n regions with timestamps from ts.
RegistriesOf(n, ts) ==
    {reg \in [1..n -> [region : Regions, next_available_time : ts]] :
        \A i \in 1..n : reg[i].region = RegionOrder[i]}

InitTimes == {0, StartTime + 1}

\* With a timestamp equal to the earliest captured time.
InitTimesEngine == {0, StartTime, StartTime + 1}

SourceConf == [max_retry_time |-> MAX_RETRY_TIME,
               multi_region_retry |-> MULTI_REGION_RETRY,
               max_retry_times_for_each_region |->
                   MAX_RETRY_TIMES_FOR_EACH_REGION]

InitLocals ==
    /\ pc = [p \in Procs |-> "idle"]
    /\ current_time = [p \in Procs |-> 0]
    /\ raw_region_configs = [p \in Procs |-> <<>>]
    /\ validate_regions = [p \in Procs |-> <<>>]
    /\ region_idx = [p \in Procs |-> 0]
    /\ one_region_retry_time = [p \in Procs |-> 0]
    /\ retry_time = [p \in Procs |-> 0]
    /\ failed_regions = [p \in Procs |-> <<>>]
    /\ response = [p \in Procs |-> "unset"]
    /\ json_data = [p \in Procs |-> <<>>]
    /\ wbuf = [p \in Procs |-> <<>>]
    /\ conf_save_result = [p \in Procs |-> "unset"]
    /\ last_out = [p \in Procs |-> "none"]
    /\ calls = [p \in Procs |-> <<>>]
    /\ loaded = [p \in Procs |-> <<>>]
    /\ seen = [p \in Procs |-> {}]
    /\ wopened = [p \in Procs |-> FALSE]
    /\ written = [p \in Procs |-> <<>>]

InitShared ==
    /\ clock = StartTime
    /\ lock = NoProc
    /\ persisted = {}

\* Concurrent runs of the script as published (lines 21-24), two regions.
Init ==
    /\ InitShared /\ InitLocals
    /\ conf = SourceConf
    /\ cyclesLeft = MaxCycles
    /\ \E reg \in RegistriesOf(2, InitTimes) : file = Dumps(reg)

\* One run of the script, for every configuration and registry in bounds.
InitEngine ==
    /\ InitShared /\ InitLocals
    /\ conf \in [max_retry_time : 1..MaxBudget,
                 multi_region_retry : BOOLEAN,
                 max_retry_times_for_each_region : 1..MaxPerRegion]
    /\ cyclesLeft = 1
    /\ \E n \in 0..Len(RegionOrder) :
         \E reg \in RegistriesOf(n, InitTimesEngine) : file = Dumps(reg)

\* The entries json.loads can return for region r: complete, without
\* region, without next_available_time.
EntryShapes(r, ts) ==
    {[region |-> r, next_available_time |-> t] : t \in ts}
    \cup {[next_available_time |-> t] : t \in ts}
    \cup {[region |-> r]}

\* One run of the script as published on a file of two entries of any shape.
InitCorrupt ==
    /\ InitShared /\ InitLocals
    /\ conf = SourceConf
    /\ cyclesLeft = 1
    /\ \E a \in EntryShapes(RegionOrder[1], InitTimes) :
         \E b \in EntryShapes(RegionOrder[2], InitTimes) :
            file = Dumps(<<a, b>>)

(***************************************************************************)
(* Actions.                                                                *)
(***************************************************************************)
SharedUnchanged == UNCHANGED <<clock, file, lock, conf, persisted>>
WriterUnchanged == UNCHANGED <<json_data, wbuf, conf_save_result, wopened,
                               written>>
EngineUnchanged == UNCHANGED <<region_idx, one_region_retry_time, retry_time,
                               failed_regions, response, calls, last_out>>
LoadUnchanged == UNCHANGED <<current_time, raw_region_configs,
                             validate_regions, loaded, seen>>

\* The clock advances between any two steps.
Tick ==
    /\ \E t \in Instants : t > clock /\ clock' = t
    /\ UNCHANGED <<file, lock, conf, cyclesLeft, persisted, pc>>
    /\ LoadUnchanged /\ EngineUnchanged /\ WriterUnchanged

\* A run of the script starts: the globals of lines 21-32 are set and
\* line 167 captures the time.
Start(p) ==
    /\ pc[p] \in {"idle", "done", "crashed"}
    /\ cyclesLeft > 0
    /\ cyclesLeft' = cyclesLeft - 1
    /\ pc' = [pc EXCEPT ![p] = "load"]
    /\ current_time' = [current_time EXCEPT ![p] = clock]
    /\ raw_region_configs' = [raw_region_configs EXCEPT ![p] = <<>>]
    /\ validate_regions' = [validate_regions EXCEPT ![p] = <<>>]
    /\ region_idx' = [region_idx EXCEPT ![p] = 0]
    /\ one_region_retry_time' = [one_region_retry_time EXCEPT ![p] = 0]
    /\ retry_time' = [retry_time EXCEPT ![p] = 0]
    /\ failed_regions' = [failed_regions EXCEPT ![p] = <<>>]
    /\ response' = [response EXCEPT ![p] = "unset"]
    /\ json_data' = [json_data EXCEPT ![p] = <<>>]
    /\ wbuf' = [wbuf EXCEPT ![p] = <<>>]
    /\ conf_save_result' = [conf_save_result EXCEPT ![p] = "unset"]
    /\ last_out' = [last_out EXCEPT ![p] = "none"]
    /\ calls' = [calls EXCEPT ![p] = <<>>]
    /\ loaded' = [loaded EXCEPT ![p] = <<>>]
    /\ seen' = [seen EXCEPT ![p] = {}]
    /\ wopened' = [wopened EXCEPT ![p] = FALSE]
    /\ written' = [written EXCEPT ![p] = <<>>]
    /\ SharedUnchanged

\* Lines 173-180: read the file, json.loads, filter.  A payload that does
\* not parse, and a KeyError of the filter, raise out of the script.
Load(p) ==
    /\ pc[p] = "load"
    /\ LET parsed == Loads(file)
       IN IF parsed.ok
          THEN /\ raw_region_configs' =
                     [raw_region_configs EXCEPT ![p] = parsed.value]
               /\ loaded' = [loaded EXCEPT ![p] = parsed.value]
               /\ IF FilterRaises(parsed.value, current_time[p])
                  THEN /\ pc' = [pc EXCEPT ![p] = "crashed"]
                       /\ UNCHANGED validate_regions
                  ELSE /\ validate_regions' = [validate_regions EXCEPT ![p] =
                             get_validate_regions_from_conf(parsed.value,
                                                            current_time[p])]
                       /\ pc' = [pc EXCEPT ![p] = "engine"]
          ELSE /\ pc' = [pc EXCEPT ![p] = "crashed"]
               /\ UNCHANGED <<raw_region_configs, loaded, validate_regions>>
    /\ seen' = [seen EXCEPT ![p] = persisted]
    /\ UNCHANGED <<current_time, cyclesLeft>>
    /\ SharedUnchanged /\ EngineUnchanged /\ WriterUnchanged

\* Lines 213 and 71-88: the call of the engine up to its first invoke_model
\* call, or to its return when there is none.
EnterEngine(p) ==
    /\ pc[p] = "engine"
    /\ IF Len(validate_regions[p]) = 0
       THEN /\ response' = [response EXCEPT ![p] = "False"]
            /\ pc' = [pc EXCEPT ![p] = "returned"]
            /\ UNCHANGED <<region_idx, one_region_retry_time>>
       ELSE LET pos == OuterHead(validate_regions[p], conf.max_retry_time,
                                 EffectivePerRegion(conf), 1, 0)
            IN IF pos.call
               THEN /\ region_idx' = [region_idx EXCEPT ![p] = pos.ri]
                    /\ one_region_retry_time' =
                          [one_region_retry_time EXCEPT ![p] = pos.k]
                    /\ pc' = [pc EXCEPT ![p] = "invoke"]
                    /\ UNCHANGED response
               ELSE /\ response' = [response EXCEPT ![p] = "False"]
                    /\ pc' = [pc EXCEPT ![p] = "returned"]
                    /\ UNCHANGED <<region_idx, one_region_retry_time>>
    /\ retry_time' = [retry_time EXCEPT ![p] = 0]
    /\ UNCHANGED <<failed_regions, calls, last_out, cyclesLeft>>
    /\ SharedUnchanged /\ LoadUnchanged /\ WriterUnchanged

\* Lines 91-111: one invoke_model call with outcome out and the control
\* flow after it, up to the next call or the return of the engine.
InvokeWith(p, out) ==
    /\ pc[p] = "invoke"
    /\ LET region_name == validate_regions[p][region_idx[p]]
           k == one_region_retry_time[p]
       IN /\ calls' = [calls EXCEPT ![p] =
                Append(@, [region |-> region_name, ok |-> (out = "ok")])]
          /\ IF out = "ok"
             THEN /\ response' = [response EXCEPT ![p] = "response"]
                  /\ pc' = [pc EXCEPT ![p] = "returned"]
                  /\ UNCHANGED <<failed_regions, retry_time, region_idx,
                                 one_region_retry_time>>
             ELSE LET pos == InnerHead(validate_regions[p],
                                       conf.max_retry_time,
                                       EffectivePerRegion(conf),
                                       region_idx[p], k + 1,
                                       retry_time[p] + 1)
                  IN /\ failed_regions' = [failed_regions EXCEPT ![p] =
                           IF out = "falsy"
                           THEN MarkFailed(@, region_name, k)
                           ELSE MarkFailedOnException(@, region_name, k)]
                     /\ retry_time' = [retry_time EXCEPT ![p] = @ + 1]
                     /\ IF pos.call
                        THEN /\ region_idx' =
                                   [region_idx EXCEPT ![p] = pos.ri]
                             /\ one_region_retry_time' =
                                   [one_region_retry_time EXCEPT
                                       ![p] = pos.k]
                             /\ UNCHANGED <<pc, response>>
                        ELSE /\ response' =
                                   [response EXCEPT ![p] = "False"]
                             /\ pc' = [pc EXCEPT ![p] = "returned"]
                             /\ UNCHANGED <<region_idx,
                                            one_region_retry_time>>
    /\ UNCHANGED cyclesLeft
    /\ SharedUnchanged /\ LoadUnchanged /\ WriterUnchanged

\* One invoke_model call, whatever its outcome.  The kind of a failure is
\* kept while the engine goes on to another attempt.
Invoke(p) ==
    \E out \in Outcomes :
        /\ InvokeWith(p, out)
        /\ last_out' = [last_out EXCEPT ![p] =
               IF pc'[p] = "invoke" THEN out ELSE "none"]

\* Lines 217-230 and 148: with failed regions, set their timestamps (in
\* place) and serialise the registry; without, the script ends.  A KeyError
\* of the updater raises out of the script.
CheckFailed(p) ==
    /\ pc[p] = "returned"
    /\ IF NeedsUpdate(failed_regions[p])
       THEN IF DisableRaises(raw_region_configs[p])
            THEN /\ raw_region_configs' = [raw_region_configs EXCEPT ![p] =
                       DisableInterrupted(@, failed_regions[p],
                                          current_time[p])]
                 /\ pc' = [pc EXCEPT ![p] = "crashed"]
                 /\ UNCHANGED json_data
            ELSE LET new_config ==
                         disable_region_in_conf(raw_region_configs[p],
                             failed_regions[p], current_time[p])
                 IN /\ raw_region_configs' =
                          [raw_region_configs EXCEPT ![p] = new_config]
                    /\ json_data' =
                          [json_data EXCEPT ![p] = Dumps(new_config)]
                    /\ pc' = [pc EXCEPT ![p] = "w_open"]
       ELSE /\ pc' = [pc EXCEPT ![p] = "done"]
            /\ UNCHANGED <<raw_region_configs, json_data>>
    /\ UNCHANGED <<current_time, validate_regions, loaded, seen, wbuf,
                   conf_save_result, wopened, written, cyclesLeft>>
    /\ SharedUnchanged /\ EngineUnchanged

\* Line 151: open(file_path, 'w') truncates the file.
WOpenTruncate(p) ==
    /\ pc[p] = "w_open"
    /\ file' = <<>>
    /\ wopened' = [wopened EXCEPT ![p] = TRUE]
    /\ pc' = [pc EXCEPT ![p] = "w_lock"]
    /\ UNCHANGED <<clock, lock, conf, persisted, cyclesLeft,
                   json_data, wbuf, written, conf_save_result>>
    /\ LoadUnchanged /\ EngineUnchanged

\* Lines 151 and 159-161: open raises IOError and the writer returns False.
WOpenIOError(p) ==
    /\ pc[p] = "w_open"
    /\ conf_save_result' = [conf_save_result EXCEPT ![p] = "False"]
    /\ pc' = [pc EXCEPT ![p] = "done"]
    /\ UNCHANGED <<clock, file, lock, conf, persisted, cyclesLeft,
                   json_data, wbuf, written, wopened>>
    /\ LoadUnchanged /\ EngineUnchanged

WOpen(p) == WOpenTruncate(p) \/ WOpenIOError(p)

\* Variant: flock returns at once, whoever holds the lock.
WLock_NoWait(p) ==
    /\ pc[p] = "w_lock"
    /\ lock' = p
    /\ pc' = [pc EXCEPT ![p] = "w_write"]
    /\ UNCHANGED <<clock, file, conf, persisted, cyclesLeft>>
    /\ LoadUnchanged /\ EngineUnchanged /\ WriterUnchanged

\* Line 152: flock(f, LOCK_EX) blocks while another handle holds the lock.
WLock(p) ==
    /\ pc[p] = "w_lock"
    /\ lock = NoProc
    /\ lock' = p
    /\ pc' = [pc EXCEPT ![p] = "w_write"]
    /\ UNCHANGED <<clock, file, conf, persisted, cyclesLeft>>
    /\ LoadUnchanged /\ EngineUnchanged /\ WriterUnchanged

\* Line 153: f.write puts the payload in the buffer of the handle.
WWrite(p) ==
    /\ pc[p] = "w_write"
    /\ wbuf' = [wbuf EXCEPT ![p] = json_data[p]]
    /\ pc' = [pc EXCEPT ![p] = "w_flush"]
    /\ UNCHANGED <<json_data, conf_save_result, wopened, written,
                   cyclesLeft>>
    /\ SharedUnchanged /\ LoadUnchanged /\ EngineUnchanged

\* The quarantines a payload written by p records.
Quarantines(p) ==
    {[region |-> failed_regions[p][i],
      until |-> current_time[p] + NEXT_RETRY_TIME_WINDOW] :
        i \in 1..Len(failed_regions[p])}

\* Line 154: f.flush writes the buffer at the offset of the handle, 0.
WFlush(p) ==
    /\ pc[p] = "w_flush"
    /\ file' = WriteAtStart(file, wbuf[p])
    /\ written' = [written EXCEPT ![p] = wbuf[p]]
    /\ wbuf' = [wbuf EXCEPT ![p] = <<>>]
    /\ persisted' = persisted \cup Quarantines(p)
    /\ pc' = [pc EXCEPT ![p] = "w_unlock"]
    /\ UNCHANGED <<clock, lock, conf, cyclesLeft, json_data,
                   conf_save_result, wopened>>
    /\ LoadUnchanged /\ EngineUnchanged

\* Line 155: flock(f, LOCK_UN).
WUnlock(p) ==
    /\ pc[p] = "w_unlock"
    /\ lock' = IF lock = p THEN NoProc ELSE lock
    /\ pc' = [pc EXCEPT ![p] = "w_close"]
    /\ UNCHANGED <<clock, file, conf, persisted, cyclesLeft>>
    /\ LoadUnchanged /\ EngineUnchanged /\ WriterUnchanged

\* Lines 151 and 157: leaving the with block closes f; return True.
WClose(p) ==
    /\ pc[p] = "w_close"
    /\ conf_save_result' = [conf_save_result EXCEPT ![p] = "True"]
    /\ pc' = [pc EXCEPT ![p] = "done"]
    /\ UNCHANGED <<json_data, wbuf, wopened, written, cyclesLeft>>
    /\ SharedUnchanged /\ LoadUnchanged /\ EngineUnchanged

Next ==
    \/ Tick
    \/ \E p \in Procs :
         \/ Start(p)
         \/ Load(p)
         \/ EnterEngine(p)
         \/ Invoke(p)
         \/ CheckFailed(p)
         \/ WOpen(p)
         \/ WLock(p)
         \/ WWrite(p)
         \/ WFlush(p)
         \/ WUnlock(p)
         \/ WClose(p)

Spec == Init /\ [][Next]_vars

SpecEngine == InitEngine /\ [][Next]_vars

SpecCorrupt == InitCorrupt /\ [][Next]_vars

\* A run of the script starts while no other run is under way.
StartAlone(p) ==
    /\ \A q \in Procs : pc[q] \in {"idle", "done", "crashed"}
    /\ Start(p)

\* Runs of the script one after another, every open succeeding.
NextSeq ==
    \/ Tick
    \/ \E p \in Procs :
         \/ StartAlone(p)
         \/ Load(p)
         \/ EnterEngine(p)
         \/ Invoke(p)
         \/ CheckFailed(p)
         \/ WOpenTruncate(p)
         \/ WLock(p)
         \/ WWrite(p)
         \/ WFlush(p)
         \/ WUnlock(p)
         \/ WClose(p)

SpecSeq == Init /\ [][NextSeq]_vars

(***************************************************************************)
(* Properties of the retry engine (checked under SpecEngine).              *)
(***************************************************************************)
\* The engine has returned in the cycle of p.
EngineReturned(p) ==
    pc[p] \in {"returned", "w_open", "w_lock", "w_write", "w_flush",
               "w_unlock", "w_close", "done"}

Min(a, b) == IF a < b THEN a ELSE b

AllFailed(c) == \A i \in 1..Len(c) : ~c[i].ok

\* The region of the i-th call when no call succeeds and no budget ends:
\* each region of rs in order, per times each.
IdealRegion(rs, per, i) == rs[((i - 1) \div per) + 1]

\* C1: the calls of a cycle are the eligible regions in order, each repeated
\* up to the per-region budget, cut off at the first success or after
\* max_retry_time failed attempts; the engine returns the response exactly
\* when the last call succeeded.
C1_CallSequence ==
    \A p \in Procs :
        LET c == calls[p]
            rs == validate_regions[p]
            g == conf.max_retry_time
            per == EffectivePerRegion(conf)
        IN /\ Len(c) <= Len(rs) * per
           /\ \A i \in 1..Len(c) : c[i].region = IdealRegion(rs, per, i)
           /\ \A i \in 1..(Len(c) - 1) : ~c[i].ok
           /\ Cardinality({i \in 1..Len(c) : ~c[i].ok}) <= g
           /\ pc[p] = "invoke" => AllFailed(c) /\ Len(c) < Min(g, Len(rs) * per)
           /\ EngineReturned(p) =>
                \/ /\ Len(c) > 0 /\ c[Len(c)].ok
                   /\ response[p] = "response"
                \/ /\ AllFailed(c) /\ Len(c) = Min(g, Len(rs) * per)
                   /\ response[p] = "False"

\* Three regions, budgets 5 and 2, A and B failing, C succeeding at once.
C1_Witness ==
    \E p \in Procs :
        /\ conf.max_retry_time = 5 /\ EffectivePerRegion(conf) = 2
        /\ validate_regions[p] = <<"A", "B", "C">>
        /\ calls[p] = <<[region |-> "A", ok |-> FALSE],
                        [region |-> "A", ok |-> FALSE],
                        [region |-> "B", ok |-> FALSE],
                        [region |-> "B", ok |-> FALSE],
                        [region |-> "C", ok |-> TRUE]>>
        /\ response[p] = "response"
        /\ failed_regions[p] = <<"A", "B">>

\* C2: a cycle never makes more than max_retry_time calls; with budgets 3
\* and 2 and two regions that always fail it makes 3 calls, returns False
\* and has recorded both regions.
C2_GlobalCap ==
    \A p \in Procs :
        /\ Len(calls[p]) <= conf.max_retry_time
        /\ ( /\ conf.max_retry_time = 3 /\ EffectivePerRegion(conf) = 2
             /\ Len(validate_regions[p]) = 2
             /\ EngineReturned(p) /\ AllFailed(calls[p]) )
           => /\ Len(calls[p]) = 3
              /\ response[p] = "False"
              /\ failed_regions[p] = validate_regions[p]

C2_Witness ==
    \E p \in Procs :
        /\ conf.max_retry_time = 3 /\ EffectivePerRegion(conf) = 2
        /\ validate_regions[p] = <<"A", "B">>
        /\ pc[p] = "returned" /\ response[p] = "False"
        /\ calls[p] = <<[region |-> "A", ok |-> FALSE],
                        [region |-> "A", ok |-> FALSE],
                        [region |-> "B", ok |-> FALSE]>>

\* The regions with a failed call in c, in the order of their first failure.
RECURSIVE FirstFailures(_)
FirstFailures(c) ==
    IF Len(c) = 0 THEN <<>>
    ELSE LET before == FirstFailures(SubSeq(c, 1, Len(c) - 1))
             last == c[Len(c)]
         IN IF ~last.ok /\ ~InSeq(last.region, before)
            THEN Append(before, last.region)
            ELSE before

\* C3: at every point of a cycle failed_regions lists exactly the regions
\* with at least one failed call in the cycle, once each, in the order of
\* their first failure.
C3_FailedRegionSet ==
    \A p \in Procs : failed_regions[p] = FirstFailures(calls[p])

\* A region failed twice and is listed once; the next region succeeded at
\* its first attempt and is not listed.
C3_Witness ==
    \E p \in Procs :
        /\ calls[p] = <<[region |-> "A", ok |-> FALSE],
                        [region |-> "A", ok |-> FALSE],
                        [region |-> "B", ok |-> TRUE]>>
        /\ failed_regions[p] = <<"A">>

\* C7: with no eligible region the engine returns False without a call,
\* failed_regions stays empty and the cycle ends without touching the file.
C7_NoEligibleRegion ==
    \A p \in Procs :
        (pc[p] \notin {"idle", "load", "crashed"} /\ validate_regions[p] = <<>>)
        => /\ calls[p] = <<>>
           /\ failed_regions[p] = <<>>
           /\ pc[p] \in {"engine", "returned", "done"}
           /\ pc[p] # "engine" => response[p] = "False"
           /\ ~wopened[p] /\ conf_save_result[p] = "unset"
           /\ raw_region_configs[p] = loaded[p]

\* Every region of a non-empty registry is quarantined and the cycle is over.
C7_Witness ==
    \E p \in Procs :
        /\ pc[p] = "done" /\ validate_regions[p] = <<>>
        /\ Len(loaded[p]) = 2 /\ response[p] = "False"

\* C8: without multi-region retry every call of a cycle goes to the first
\* eligible region and no other region is recorded as failed; with two
\* eligible regions, budget 3 and no success there are exactly 3 calls.
C8_SingleRegion ==
    \A p \in Procs :
        ~conf.multi_region_retry =>
            /\ \A i \in 1..Len(calls[p]) :
                  calls[p][i].region = validate_regions[p][1]
            /\ \A i \in 1..Len(failed_regions[p]) :
                  failed_regions[p][i] = validate_regions[p][1]
            /\ ( /\ conf.max_retry_time = 3 /\ Len(validate_regions[p]) = 2
                 /\ EngineReturned(p) /\ AllFailed(calls[p]) )
               => Len(calls[p]) = 3

C8_Witness ==
    \E p \in Procs :
        /\ ~conf.multi_region_retry /\ conf.max_retry_time = 3
        /\ conf.max_retry_times_for_each_region = 1
        /\ validate_regions[p] = <<"A", "B">>
        /\ pc[p] = "done" /\ response[p] = "False"
        /\ calls[p] = <<[region |-> "A", ok |-> FALSE],
                        [region |-> "A", ok |-> FALSE],
                        [region |-> "A", ok |-> FALSE]>>

(***************************************************************************)
(* Properties of the shared file (checked under Spec, except C10).         *)
(***************************************************************************)
\* C4: when both processes have run the writer to its end, the file holds
\* the complete payload of one of them.
C4_NoTornWrite ==
    (\A p \in Procs : pc[p] = "done" /\ conf_save_result[p] = "True")
    => /\ Loads(file).ok
       /\ \E p \in Procs : file = written[p]

\* C5: a cycle that loaded the registry after a quarantine of region r until
\* time u was written to the file, and whose captured time is earlier than
\* u, makes no call to r.
C5_QuarantineRespected ==
    \A p \in Procs :
        \A q \in seen[p] :
            \A i \in 1..Len(calls[p]) :
                calls[p][i].region = q.region => current_time[p] >= q.until

\* C6: a process that reads the file while another process holds the lock
\* of the writer reads one complete serialised registry.
C6_NoPartialRead ==
    [][\A p \in Procs :
          (pc[p] = "load" /\ pc'[p] # "load" /\ lock \in Procs \ {p})
          => pc'[p] = "engine" /\ Dumps(loaded'[p]) = file]_vars

\* The payload w is a serialised registry with the regions of the registry
\* loaded by p in which every failed region of p has the time captured by p
\* plus the window.
QuarantinePayload(p, w) ==
    LET r == Loads(w)
    IN /\ r.ok
       /\ Len(r.value) = Len(loaded[p])
       /\ \A i \in 1..Len(r.value) : r.value[i].region = loaded[p][i].region
       /\ \A i \in 1..Len(failed_regions[p]) :
             \E j \in 1..Len(r.value) :
                r.value[j].region = failed_regions[p][i]
       /\ \A j \in 1..Len(r.value) :
             InSeq(r.value[j].region, failed_regions[p])
             => r.value[j].next_available_time =
                   current_time[p] + NEXT_RETRY_TIME_WINDOW

C10_NoWrite ==
    \A p \in Procs :
        (pc[p] = "done" /\ failed_regions[p] = <<>>)
        => /\ ~wopened[p] /\ written[p] = <<>> /\ json_data[p] = <<>>
           /\ conf_save_result[p] = "unset"
           /\ raw_region_configs[p] = loaded[p]
           /\ file = Dumps(loaded[p])

\* The first attempt succeeded.
C10_Witness ==
    \E p \in Procs :
        /\ pc[p] = "done" /\ failed_regions[p] = <<>>
        /\ calls[p] = <<[region |-> "A", ok |-> TRUE]>>
        /\ Len(loaded[p]) = 2

(***************************************************************************)
(* The filter and the updater (checked under SpecEngine).                  *)
(***************************************************************************)
\* The cycle of p has passed the filter of line 180.
Filtered(p) == pc[p] \notin {"idle", "load", "crashed"}

\* The positions of the registry R whose time has come at t.
EligibleAt(R, t) == {i \in 1..Len(R) : R[i].next_available_time <= t}

Merged(p) ==
    /\ failed_regions[p] # <<>>
    /\ pc[p] \in {"w_open", "w_lock", "w_write", "w_flush", "w_unlock",
                  "w_close", "done"}

\* C12: the registry the updater returns has the length and the regions of
\* the loaded one, in the same order; the entry of every failed region has
\* the captured time plus the window and every other entry has the
\* timestamp that was loaded.
C12_MergeExact ==
    \A p \in Procs :
        Merged(p) =>
            LET R == loaded[p]
                M == raw_region_configs[p]
            IN /\ Len(M) = Len(R)
               /\ \A i \in 1..Len(R) :
                     /\ M[i].region = R[i].region
                     /\ M[i].next_available_time =
                          IF \E k \in 1..Len(failed_regions[p]) :
                                 failed_regions[p][k] = R[i].region
                          THEN current_time[p] + NEXT_RETRY_TIME_WINDOW
                          ELSE R[i].next_available_time
               /\ json_data[p] = Dumps(M)

\* A failed and B did not; C was quarantined and keeps its timestamp.
C12_Witness ==
    \E p \in Procs :
        /\ Merged(p) /\ failed_regions[p] = <<"A">>
        /\ loaded[p] =
              <<[region |-> "A", next_available_time |-> 0],
                [region |-> "B", next_available_time |-> StartTime],
                [region |-> "C", next_available_time |-> StartTime + 1]>>
        /\ raw_region_configs[p] =
              <<[region |-> "A", next_available_time |->
                    current_time[p] + NEXT_RETRY_TIME_WINDOW],
                [region |-> "B", next_available_time |-> StartTime],
                [region |-> "C", next_available_time |-> StartTime + 1]>>

(***************************************************************************)
(* Malformed entries (checked under SpecCorrupt).                          *)
(***************************************************************************)
\* The registry R has an entry without region or without
\* next_available_time.
Malformed(R) == \E i \in 1..Len(R) : ~WellFormed(R[i])

\* C13: a cycle that loaded a registry with a malformed entry has stopped
\* at the load: it goes on to no call of invoke_model and to no write.
C13_MalformedAborts ==
    \A p \in Procs :
        (pc[p] \notin {"idle", "load"} /\ Malformed(loaded[p]))
        => /\ pc[p] = "crashed"
           /\ calls[p] = <<>>
           /\ ~wopened[p]

(***************************************************************************)
(* The outcome of the engine (checked under Spec).                         *)
(***************************************************************************)
\* C14: the value the engine returns to a cycle without eligible regions
\* differs from the value it returns to a cycle whose attempts all failed.
C14_DistinctFailures ==
    \A p, q \in Procs :
        ( /\ EngineReturned(p) /\ validate_regions[p] = <<>>
          /\ EngineReturned(q) /\ validate_regions[q] # <<>>
          /\ AllFailed(calls[q]) )
        => response[p] # response[q]

(***************************************************************************)
(* The writer (checked under Spec).                                        *)
(***************************************************************************)
\* p is between flock(LOCK_EX) and flock(LOCK_UN).
InLock(pcs, p) == pcs[p] \in {"w_write", "w_flush", "w_unlock"}

\* The steps that may follow each step of the writer.
WriterSuccessors(at) ==
    CASE at = "w_open"   -> {"w_lock", "done"}
      [] at = "w_lock"   -> {"w_write"}
      [] at = "w_write"  -> {"w_flush"}
      [] at = "w_flush"  -> {"w_unlock"}
      [] at = "w_unlock" -> {"w_close"}
      [] at = "w_close"  -> {"done"}
      [] OTHER           -> {}

WriterSteps == {"w_open", "w_lock", "w_write", "w_flush", "w_unlock",
                "w_close"}

\* C15: every writer goes through open, lock, write, flush, unlock, close
\* in this order (an open that fails ends the writer), the payload reaches
\* the file whole and only under the lock of the writer, and no two
\* processes are between lock and unlock at once.
C15_WriterProtocol ==
    [][(\A p \in Procs :
          /\ (pc[p] \in WriterSteps /\ pc'[p] # pc[p])
             => pc'[p] \in WriterSuccessors(pc[p])
          /\ (pc'[p] \in WriterSteps \ {"w_open"} /\ pc'[p] # pc[p])
             => pc[p] \in WriterSteps
          /\ written'[p] # written[p]
             => \/ written'[p] = <<>> /\ pc'[p] = "load"
                \/ /\ pc[p] = "w_flush" /\ lock = p
                   /\ written'[p] = json_data[p]
          /\ InLock(pc, p)' => lock' = p)
       /\ (\A p, q \in Procs :
             p # q => ~(InLock(pc, p)' /\ InLock(pc, q)'))]_vars

\* One process is about to flush under the lock while the other waits for
\* the lock.
C15_Witness ==
    \E p, q \in Procs :
        /\ pc[p] = "w_flush" /\ lock = p /\ wbuf[p] = json_data[p]
        /\ pc[q] = "w_lock"

(***************************************************************************)
(* The quarantine window over successive cycles (checked under SpecSeq).   *)
(***************************************************************************)
\* The quarantines of region r that earlier cycles had recorded when the
\* cycle of p loaded the registry.
EarlierFailures(p, r) == {q \in seen[p] : q.region = r}

C17_FailureKindIrrelevant ==
    [][\A p \in Procs :
          /\ InvokeWith(p, "falsy") <=> InvokeWith(p, "raise")
          /\ (pc[p] = "invoke" /\ pc'[p] # "invoke")
             => pc'[p] = "returned" /\ response'[p] \in {"response", "False"}
      ]_vars

\* The first attempt on A raised, A is recorded and the engine goes on.
C17_Witness ==
    \E p \in Procs :
        /\ pc[p] = "invoke" /\ last_out[p] = "raise"
        /\ calls[p] = <<[region |-> "A", ok |-> FALSE]>>
        /\ failed_regions[p] = <<"A">>
        /\ retry_time[p] = 1

(***************************************************************************)
(* Frame of the updater (checked under SpecEngine).                        *)
(***************************************************************************)
\* C18: after the updater has returned, the registry object loaded at the
\* start of the cycle still has the value that was loaded.
C18_MergeKeepsOriginal ==
    \A p \in Procs : Merged(p) => raw_region_configs[p] = loaded[p]

(***************************************************************************)
(* Completion of the cycles (checked under Spec).                          *)
(***************************************************************************)
\* C19: no cycle that started ends other than with the outcome of the
\* engine (a response or False), and a process that waits for the lock
\* waits for a holder that is on its way to release it.
C19_CompletesNormally ==
    \A p \in Procs :
        /\ pc[p] # "crashed"
        /\ pc[p] = "done" => response[p] \in {"response", "False"}
        /\ (pc[p] = "w_lock" /\ lock # NoProc)
           => lock # p /\ InLock(pc, lock)

(***************************************************************************)
(* Only eligible regions are touched (checked under Spec).                 *)
(***************************************************************************)
\* Region r has an entry in the registry loaded by p whose time had come
\* at the time captured by p.
EligibleAtLoad(p, r) ==
    \E i \in EligibleAt(loaded[p], current_time[p]) : loaded[p][i].region = r

\* C20: every region a cycle calls or records as failed was eligible in
\* the registry the cycle loaded; the registry the cycle hands to the
\* writer, and writes, has the loaded entries in the loaded order and
\* differs from them only at entries that were eligible at load, so an
\* entry quarantined at load is written back with its loaded timestamp.
C20_OnlyEligibleTouched ==
    \A p \in Procs :
        /\ \A i \in 1..Len(calls[p]) : EligibleAtLoad(p, calls[p][i].region)
        /\ \A i \in 1..Len(failed_regions[p]) :
              EligibleAtLoad(p, failed_regions[p][i])
        /\ Merged(p) =>
              LET W == Loads(json_data[p])
              IN /\ W.ok /\ Len(W.value) = Len(loaded[p])
                 /\ \A i \in 1..Len(loaded[p]) :
                       \/ W.value[i] = loaded[p][i]
                       \/ /\ i \in EligibleAt(loaded[p], current_time[p])
                          /\ W.value[i].region = loaded[p][i].region
        /\ written[p] \in {<<>>, json_data[p]}

\* A was quarantined at load and B failed: the written registry has A with
\* its loaded timestamp and B quarantined.
C20_Witness ==
    \E p \in Procs :
        /\ loaded[p] = <<[region |-> "A",
                          next_available_time |-> current_time[p] + 1],
                         [region |-> "B", next_available_time |-> 0]>>
        /\ failed_regions[p] = <<"B">>
        /\ written[p] =
              Dumps(<<[region |-> "A",
                       next_available_time |-> current_time[p] + 1],
                      [region |-> "B", next_available_time |->
                          current_time[p] + NEXT_RETRY_TIME_WINDOW]>>)

====
